---- MODULE Spec2Model ----
(***************************************************************************)
(* Model of mini-fs' caseless filesystem (src/caseless.rs): CaselessFs     *)
(* wraps an inner Store and resolves paths case-insensitively, component   *)
(* by component, against the inner store's directory listings.             *)
(*                                                                         *)
(* Names (OsString) are sequences of bytes.  A path is a record            *)
(* [root, segs]: an optional root marker followed by named segments.       *)
(***************************************************************************)
EXTENDS Integers, Sequences, FiniteSets, TLC

\* ---------------------------------------------------------------- bounds
\* Most files the inner store holds.
MaxFiles == 2
\* Most named segments of a requested path.
MaxSegs == 2

\* ----------------------------------------------------------------- names
\* "a", "A", and the same two followed by the byte 0xFF (never valid UTF-8).
LetterNames == { <<97>>, <<65>>, <<97, 255>>, <<65, 255>> }
\* The names of the entries of a store: the above and "e-acute" (C3 A9).
EntryNames == LetterNames \cup { <<195, 169>> }
\* The segments of a request: the above and "E-acute" (C3 89).
Names == EntryNames \cup { <<195, 137>> }

\* The real paths a store can hold: an entry below the root, or an entry
\* below a directory below the root.
RealSegs == {<<n>> : n \in EntryNames} \cup {<<d, n>> : d, n \in LetterNames}

\* OsStr::to_str: Some iff the bytes are valid UTF-8.
RECURSIVE IsUtf8(_)
IsUtf8(b) ==
    IF b = <<>> THEN TRUE
    ELSE IF b[1] < 128 THEN IsUtf8(Tail(b))
    ELSE IF b[1] >= 194 /\ b[1] <= 223
         THEN Len(b) >= 2 /\ b[2] >= 128 /\ b[2] <= 191 /\ IsUtf8(Tail(Tail(b)))
    ELSE IF b[1] >= 224 /\ b[1] <= 239
         THEN /\ Len(b) >= 3
              /\ b[2] >= (IF b[1] = 224 THEN 160 ELSE 128)
              /\ b[2] <= (IF b[1] = 237 THEN 159 ELSE 191)
              /\ b[3] >= 128 /\ b[3] <= 191
              /\ IsUtf8(Tail(Tail(Tail(b))))
    ELSE IF b[1] >= 240 /\ b[1] <= 244
         THEN /\ Len(b) >= 4
              /\ b[2] >= (IF b[1] = 240 THEN 144 ELSE 128)
              /\ b[2] <= (IF b[1] = 244 THEN 143 ELSE 191)
              /\ b[3] >= 128 /\ b[3] <= 191
              /\ b[4] >= 128 /\ b[4] <= 191
              /\ IsUtf8(Tail(Tail(Tail(Tail(b)))))
    ELSE FALSE

\* A fold that sets bit 5 of every byte, letter or not.
ToAsciiLowercaseSetsBit5(b) ==
    [i \in DOMAIN b |-> IF (b[i] \div 32) % 2 = 0 THEN b[i] + 32 ELSE b[i]]

\* str::to_ascii_lowercase: 'A'..'Z' become 'a'..'z', every other byte stays.
ToAsciiLowercase(b) ==
    [i \in DOMAIN b |-> IF b[i] >= 65 /\ b[i] <= 90 THEN b[i] + 32 ELSE b[i]]

\* ----------------------------------------------------------------- paths
\* PathBuf::new()
EmptyPath == [root |-> FALSE, segs |-> <<>>]
\* Path::new("/")
RootPath == [root |-> TRUE, segs |-> <<>>]
\* PathBuf::push of a listed entry name (no separator inside a name).
Push(path, name) == [root |-> path.root, segs |-> Append(path.segs, name)]

\* Path::components of the normalized path: RootDir?, then Normal segments.
Normalize(path) ==
    (IF path.root THEN << [kind |-> "RootDir"] >> ELSE <<>>)
    \o [i \in 1..Len(path.segs) |-> [kind |-> "Normal", name |-> path.segs[i]]]

\* ----------------------------------------------------------- inner store
\* The inner Store is a tree of named entries.  A store value is a record
\*   ls       : directory (its segments) -> names in listing order
\*   files    : the segments of the entries that are files
\*   listFail : directories whose listing fails
\*   entryErr : entries a listing yields as Err instead of Ok(entry)
\*   openDeny : files whose open fails with PermissionDenied
\* Relative and rooted paths resolve from the same root.
Front(s) == SubSeq(s, 1, Len(s) - 1)
IsPrefix(d, f) == Len(d) <= Len(f) /\ SubSeq(f, 1, Len(d)) = d
InSeq(x, s) == \E i \in DOMAIN s : s[i] = x
Range(s) == {s[i] : i \in DOMAIN s}

\* Names directly below directory d, in the order the files were created.
RECURSIVE Children(_, _)
Children(fseq, d) ==
    IF fseq = <<>> THEN <<>>
    ELSE LET prev == Children(Front(fseq), d)
             f == fseq[Len(fseq)]
         IN IF Len(f) > Len(d) /\ IsPrefix(d, f) /\ ~InSeq(f[Len(d) + 1], prev)
            THEN Append(prev, f[Len(d) + 1])
            ELSE prev

DirsOf(fseq) ==
    {<<>>} \cup UNION {{SubSeq(f, 1, k) : k \in 0..(Len(f) - 1)} : f \in Range(fseq)}

NodesOf(fseq) ==
    UNION {{SubSeq(f, 1, k) : k \in 1..Len(f)} : f \in Range(fseq)}

\* Most injected faults of the inner store.
MaxFaults == 1

FaultSets(fseq) ==
    LET tagged == ({"list"} \X DirsOf(fseq)) \cup ({"entry"} \X NodesOf(fseq))
                  \cup ({"open"} \X (Range(fseq) \ DirsOf(fseq)))
    IN {F \in SUBSET tagged : Cardinality(F) <= MaxFaults}

MkStore(fseq, F) ==
    [ls |-> [d \in DirsOf(fseq) |-> Children(fseq, d)],
     files |-> Range(fseq) \ DirsOf(fseq),
     listFail |-> {x[2] : x \in {y \in F : y[1] = "list"}},
     entryErr |-> {x[2] : x \in {y \in F : y[1] = "entry"}},
     openDeny |-> {x[2] : x \in {y \in F : y[1] = "open"}}]

FileSeqs ==
    UNION {{s \in [1..n -> RealSegs] : \A i, j \in 1..n : i # j => s[i] # s[j]}
           : n \in 0..MaxFiles}

Stores == UNION {{MkStore(fseq, F) : F \in FaultSets(fseq)} : fseq \in FileSeqs}

\* Store::entries: Ok(iterator of io::Result<Entry>) or Err.
Entries(fs, path) ==
    IF path.segs \notin DOMAIN fs.ls
    THEN [ok |-> FALSE, kind |-> "NotFound", from |-> "entries", path |-> path]
    ELSE IF path.segs \in fs.listFail
    THEN [ok |-> FALSE, kind |-> "Other", from |-> "entries", path |-> path]
    ELSE [ok |-> TRUE,
          items |-> [i \in 1..Len(fs.ls[path.segs]) |->
                       IF Append(path.segs, fs.ls[path.segs][i]) \in fs.entryErr
                       THEN [ok |-> FALSE]
                       ELSE [ok |-> TRUE, name |-> fs.ls[path.segs][i]]]]

\* Store::open_path of the inner store: the file, or an io::Error.
InnerOpen(fs, path) ==
    IF path.segs \in fs.files /\ path.segs \notin fs.openDeny
    THEN [ok |-> TRUE, file |-> path.segs]
    ELSE IF path.segs \in fs.openDeny
    THEN [ok |-> FALSE, kind |-> "PermissionDenied", from |-> "inner", path |-> path]
    ELSE IF path.segs \in DOMAIN fs.ls
    THEN [ok |-> FALSE, kind |-> "Other", from |-> "inner", path |-> path]
    ELSE [ok |-> FALSE, kind |-> "NotFound", from |-> "inner", path |-> path]

\* -------------------------------------------------------------- caseless
\* A comparison that folds the entry name but takes the target as given.
Utf8MatchesTargetAsGiven(t, e) == IsUtf8(e) /\ t = ToAsciiLowercase(e)

\* caseless.rs:125, the comparison of a valid-text target with an entry name.
Utf8Matches(t, e) == IsUtf8(e) /\ ToAsciiLowercase(t) = ToAsciiLowercase(e)

\* A comparison that folds invalid UTF-8 too.
RawMatchesFolded(t, e) == ToAsciiLowercase(e) = ToAsciiLowercase(t)

\* caseless.rs:141, the raw comparison for a target with invalid UTF-8.
RawMatches(t, e) == e = t

EntryMatches(t, e) == IF IsUtf8(t) THEN Utf8Matches(t, e) ELSE RawMatches(t, e)

\* A push of the requested segment instead of the entry's own name.
PushTarget(path, target, name) == Push(path, target)

\* caseless.rs:126-128 and 142-144: the candidate pushed for a matching entry.
PushEntry(path, target, name) == Push(path, name)

\* The matches of one candidate path, last listed first.
MatchesUnderReversed(fs, target, path) ==
    LET res == Entries(fs, path)
        hit(e) == e.ok /\ EntryMatches(target, e.name)
        hits == IF res.ok THEN SelectSeq(res.items, hit) ELSE <<>>
    IN [i \in 1..Len(hits) |-> PushEntry(path, target, hits[Len(hits) + 1 - i].name)]

\* The inner loops of find_next_ascii_lowercase for one candidate path: the
\* listing is skipped when it fails, each entry when it is an Err.
MatchesUnder(fs, target, path) ==
    LET res == Entries(fs, path)
        hit(e) == e.ok /\ EntryMatches(target, e.name)
        hits == IF res.ok THEN SelectSeq(res.items, hit) ELSE <<>>
    IN [i \in 1..Len(hits) |-> PushEntry(path, target, hits[i].name)]

RECURSIVE MatchesUnderAll(_, _, _)
\* A loop over the candidates that gives up at the first listing that fails.
MatchesUnderAllAborting(fs, target, paths) ==
    IF paths = <<>> \/ ~Entries(fs, Head(paths)).ok THEN <<>>
    ELSE MatchesUnder(fs, target, Head(paths))
         \o MatchesUnderAll(fs, target, Tail(paths))

\* The loop over the candidate paths, in their order.
MatchesUnderAll(fs, target, paths) ==
    IF paths = <<>> THEN <<>>
    ELSE MatchesUnder(fs, target, Head(paths))
         \o MatchesUnderAll(fs, target, Tail(paths))

\* find_next_ascii_lowercase: the next candidates, and the listings it made.
FindNextAsciiLowercase(fs, component, paths) ==
    IF component.kind = "RootDir"
    THEN [next |-> <<RootPath>>, calls |-> <<>>]
    ELSE [next |-> MatchesUnderAll(fs, component.name, paths), calls |-> paths]

\* An exit test without the early return on an empty candidate set.
FindReturnsOnlyAtEnd(next, rest) == rest = <<>>

\* The exit test of the loop of CaselessFs::find after one component.
FindReturns(next, rest) == Len(next) = 0 \/ rest = <<>>

\* CaselessFs::find as a whole.
RECURSIVE FindLoop(_, _, _)
FindLoop(fs, comps, paths) ==
    IF comps = <<>> THEN [paths |-> paths, calls |-> <<>>]
    ELSE LET r == FindNextAsciiLowercase(fs, Head(comps), paths)
         IN IF FindReturns(r.next, Tail(comps))
            THEN [paths |-> r.next, calls |-> r.calls]
            ELSE LET more == FindLoop(fs, Tail(comps), r.next)
                 IN [paths |-> more.paths, calls |-> r.calls \o more.calls]

Find(fs, path) == FindLoop(fs, Normalize(path), <<EmptyPath>>)

\* The synthesized error of CaselessFs::open_path.
NotFoundErr == [ok |-> FALSE, kind |-> "NotFound", from |-> "caseless"]

\* A caseless branch that goes on to the second candidate when the first
\* fails to open.
OpenCaselessRetrying(fs, exact, found) ==
    IF found = <<>> THEN [result |-> NotFoundErr, opens |-> <<>>]
    ELSE IF InnerOpen(fs, found[1]).ok \/ Len(found) = 1
    THEN [result |-> InnerOpen(fs, found[1]), opens |-> <<found[1]>>]
    ELSE [result |-> InnerOpen(fs, found[2]), opens |-> <<found[1], found[2]>>]

\* A caseless branch that hands back the error of the exact attempt.
OpenCaselessKeepingExactError(fs, exact, found) ==
    IF found # <<>>
    THEN [result |-> InnerOpen(fs, found[1]), opens |-> <<found[1]>>]
    ELSE [result |-> exact, opens |-> <<>>]

\* The caseless branch of open_path: only the first candidate is opened.
OpenCaseless(fs, exact, found) ==
    IF found # <<>>
    THEN [result |-> InnerOpen(fs, found[1]), opens |-> <<found[1]>>]
    ELSE [result |-> NotFoundErr, opens |-> <<>>]

\* ----------------------------------------------------------------- state
VARIABLES inner, op, req, pc, paths, prev, rest, listCalls, openCalls, result

vars == <<inner, op, req, pc, paths, prev, rest, listCalls, openCalls, result>>

Requests ==
    {[root |-> r, segs |-> s] :
        r \in BOOLEAN, s \in UNION {[1..n -> Names] : n \in 0..MaxSegs}}

None == [ok |-> FALSE, kind |-> "None", from |-> "none"]

Init ==
    /\ inner \in Stores
    /\ op \in {"find", "open"}
    /\ req \in Requests
    /\ pc = "idle"
    /\ paths = <<>>
    /\ rest = <<>>
    /\ listCalls = <<>>
    /\ openCalls = <<>>
    /\ result = None
    /\ prev = <<>>

\* find, lines 63-64: normalize, start from the single empty path.
FindBegin ==
    /\ pc = "idle" /\ op = "find"
    /\ rest' = Normalize(req)
    /\ paths' = <<EmptyPath>>
    /\ pc' = IF Normalize(req) = <<>> THEN "done" ELSE "loop"
    /\ UNCHANGED <<inner, op, req, prev, listCalls, openCalls, result>>

\* find, lines 65-70: one component of the loop.
FindStep ==
    /\ pc = "loop"
    /\ LET r == FindNextAsciiLowercase(inner, Head(rest), paths)
       IN /\ paths' = r.next
          /\ listCalls' = listCalls \o r.calls
          /\ prev' = paths
          /\ rest' = Tail(rest)
          /\ pc' = IF FindReturns(r.next, Tail(rest)) THEN "done" ELSE "loop"
    /\ UNCHANGED <<inner, op, req, openCalls, result>>

\* open_path, lines 82-92.
OpenPath ==
    /\ pc = "idle" /\ op = "open"
    /\ LET exact == InnerOpen(inner, req)
       IN IF exact.ok
          THEN /\ result' = exact
               /\ openCalls' = <<req>>
               /\ UNCHANGED <<paths, listCalls>>
          ELSE LET f == Find(inner, req)
                   o == OpenCaseless(inner, exact, f.paths)
               IN /\ result' = o.result
                  /\ openCalls' = <<req>> \o o.opens
                  /\ paths' = f.paths
                  /\ listCalls' = f.calls
    /\ pc' = "done"
    /\ UNCHANGED <<inner, op, req, prev, rest>>

Next == FindBegin \/ FindStep \/ OpenPath

Spec == Init /\ [][Next]_vars

\* ------------------------------------------- what the store really holds
IsUpper(b) == b >= 65 /\ b <= 90
SameLetter(x, y) ==
    x = y \/ (IsUpper(x) /\ y = x + 32) \/ (IsUpper(y) /\ x = y + 32)
\* Equal up to the case of ASCII letters.
FoldEq(t, e) == Len(t) = Len(e) /\ \A i \in 1..Len(t) : SameLetter(t[i], e[i])
\* A requested segment against a real name: folded when valid text, else raw.
SegMatches(t, e) == IF IsUtf8(t) THEN FoldEq(t, e) ELSE t = e

AllNodes(fs) ==
    {<<>>} \cup UNION {{Append(d, n) : n \in Range(fs.ls[d])} : d \in DOMAIN fs.ls}
Exists(fs, segs) == segs \in AllNodes(fs)
Index(s, x) == CHOOSE i \in DOMAIN s : s[i] = x

\* The names a listing of directory d hands over as Ok entries.
OkListed(fs, d) ==
    IF d \in DOMAIN fs.ls /\ d \notin fs.listFail
    THEN {n \in Range(fs.ls[d]) : Append(d, n) \notin fs.entryErr}
    ELSE {}

\* The real entries k segments deep that match the first k requested segments.
LevelMatches(fs, p, k) ==
    {q \in AllNodes(fs) : Len(q) = k /\ \A i \in 1..k : SegMatches(p[i], q[i])}

\* No listing on the way to q fails, and no entry on the way is an Err.
CleanChain(fs, q) ==
    \A k \in 1..Len(q) :
        SubSeq(q, 1, k - 1) \notin fs.listFail /\ SubSeq(q, 1, k) \notin fs.entryErr

\* p comes before q in listing order: at the first level where they part,
\* p's entry is listed first.
ListedBefore(fs, p, q) ==
    \E k \in 1..Len(p) :
        /\ SubSeq(p, 1, k - 1) = SubSeq(q, 1, k - 1)
        /\ p[k] # q[k]
        /\ Index(fs.ls[SubSeq(p, 1, k - 1)], p[k]) < Index(fs.ls[SubSeq(p, 1, k - 1)], q[k])

\* Named segments the loop of find has processed so far.
SegsDone == Len(req.segs) - Cardinality({i \in DOMAIN rest : rest[i].kind = "Normal"})

InFind == op = "find" /\ pc # "idle"
Opened == op = "open" /\ pc = "done"
PathSegs == {paths[i].segs : i \in DOMAIN paths}

\* ------------------------------------------------------------------- C1
\* C1 (as claimed): a path that exists exactly as a file is opened as the
\* inner store opens it, never a case-variant sibling; no listing is made
\* when the exact open succeeds.
C1_ExactPathOpensThatFile ==
    (Opened /\ req.segs \in inner.files) =>
        /\ result = InnerOpen(inner, req)
        /\ (InnerOpen(inner, req).ok => listCalls = <<>>)

\* ------------------------------------------------------------------- C2
CaseVariant(p, r) == Len(p) = Len(r) /\ \A i \in 1..Len(p) : FoldEq(p[i], r[i])

NoEarlierSibling(fs, p, r) ==
    \A k \in 1..Len(r) :
        LET l == fs.ls[SubSeq(r, 1, k - 1)]
        IN \A i \in 1..Len(l) : i < Index(l, r[k]) => ~FoldEq(p[k], l[i])

C2_Case(r) ==
    /\ Opened
    /\ req.segs # r
    /\ CaseVariant(req.segs, r)
    /\ ~Exists(inner, req.segs)
    /\ NoEarlierSibling(inner, req.segs, r)

\* C2 (as claimed): a request that differs from a real file path r only in
\* ASCII letter case, with no earlier-listed matching sibling at any level,
\* opens what opening r opens.
C2_CaseVariantOpensRealFile ==
    \A r \in inner.files :
        C2_Case(r) => result = InnerOpen(inner, [root |-> req.root, segs |-> r])

\* C2 (amended): the same, provided the segments that differ are valid
\* UTF-8 and the listings on the way to r succeed and yield r's entries.
C2_CaseVariantOpensRealFileWhenListed ==
    \A r \in inner.files :
        (/\ C2_Case(r)
         /\ CleanChain(inner, r)
         /\ \A k \in 1..Len(r) : req.segs[k] # r[k] => IsUtf8(req.segs[k]))
        => result = InnerOpen(inner, [root |-> req.root, segs |-> r])

C2_Witness ==
    /\ Opened /\ result.ok
    /\ Len(req.segs) = 2
    /\ req.segs[1] # result.file[1] /\ req.segs[2] # result.file[2]

\* ------------------------------------------------------------------- C3
\* C3: when listings succeed, find returns exactly the real paths of the
\* request's depth whose segments match the requested ones (ASCII-folded
\* for valid text), each once, in listing order level by level.
C3_FindReturnsExactlyTheMatches ==
    (op = "find" /\ pc = "done" /\ inner.listFail = {} /\ inner.entryErr = {}) =>
        /\ PathSegs = LevelMatches(inner, req.segs, Len(req.segs))
        /\ \A i \in DOMAIN paths : paths[i].root = req.root
        /\ \A i, j \in DOMAIN paths :
              i < j => ListedBefore(inner, paths[i].segs, paths[j].segs)

C3_Witness ==
    /\ op = "find" /\ pc = "done" /\ inner.listFail = {} /\ inner.entryErr = {}
    /\ Len(req.segs) = 2 /\ Len(paths) = 2
    /\ paths[1].segs[1] # paths[2].segs[1]
    /\ paths[1].segs # req.segs /\ paths[2].segs # req.segs

\* ------------------------------------------------------------------- C4
\* C4: when the exact open fails and find has candidates, exactly one more
\* open is made, on the first candidate, and its result is returned as is.
C4_OnlyFirstCandidateOpened ==
    (Opened /\ ~InnerOpen(inner, req).ok /\ Find(inner, req).paths # <<>>) =>
        LET first == Find(inner, req).paths[1]
        IN /\ openCalls = <<req, first>>
           /\ result = InnerOpen(inner, first)

C4_Witness ==
    /\ Opened /\ Len(paths) >= 2
    /\ ~result.ok /\ result.kind = "PermissionDenied"
    /\ InnerOpen(inner, paths[2]).ok

\* ------------------------------------------------------------------- C5
\* C5: when the exact open fails and find has no candidate, open_path fails
\* with the synthesized NotFound, not with the error of the exact attempt.
C5_NoCandidateIsNotFound ==
    (Opened /\ ~InnerOpen(inner, req).ok /\ Find(inner, req).paths = <<>>) =>
        /\ result = NotFoundErr
        /\ result # InnerOpen(inner, req)
        /\ openCalls = <<req>>

C5_Witness ==
    /\ Opened /\ result = NotFoundErr
    /\ InnerOpen(inner, req).kind = "Other"

\* ------------------------------------------------------------------- C6
RECURSIVE SumLevels(_, _, _)
SumLevels(fs, p, k) ==
    IF k = 0 THEN 0
    ELSE Cardinality(LevelMatches(fs, p, k - 1)) + SumLevels(fs, p, k - 1)

\* C6: find returns as soon as a component leaves no candidate, so the
\* listings made are at most one per candidate of the levels processed.
C6_FindShortCircuits ==
    InFind =>
        /\ (paths = <<>> => pc = "done")
        /\ Len(listCalls) <= SumLevels(inner, req.segs, SegsDone)

C6_Witness ==
    /\ InFind /\ pc = "done" /\ paths = <<>>
    /\ rest # <<>> /\ listCalls # <<>>

\* ------------------------------------------------------------------- C7
\* C7: listing errors never escape: find yields no error, a failed listing
\* or entry costs only the matches below it, and open_path fails only with
\* the synthesized NotFound or the error of opening the first candidate.
C7_ListingErrorsAbsorbed ==
    /\ InFind =>
          /\ result = None
          /\ \A q \in LevelMatches(inner, req.segs, SegsDone) :
                CleanChain(inner, q) => q \in PathSegs
    /\ (Opened /\ ~result.ok) =>
          \/ result = NotFoundErr
          \/ paths # <<>> /\ result = InnerOpen(inner, paths[1])

C7_Witness ==
    /\ InFind /\ pc = "done" /\ paths # <<>>
    /\ \E i \in DOMAIN listCalls : listCalls[i].segs \in inner.listFail

\* ------------------------------------------------------------------- C8
\* C8: for a segment of invalid UTF-8 an entry becomes a candidate iff its
\* name is byte-identical; valid-text segments are still matched folded.
C8_InvalidSegmentsMatchRaw ==
    (InFind /\ SegsDone >= 1) =>
        LET t == req.segs[SegsDone]
            keeps(n) == IF IsUtf8(t) THEN FoldEq(t, n) ELSE n = t
        IN Range(paths) =
              UNION {{Push(prev[c], n) : n \in {m \in OkListed(inner, prev[c].segs) : keeps(m)}}
                     : c \in DOMAIN prev}

C8_Witness ==
    /\ InFind /\ pc = "done" /\ SegsDone = 2 /\ paths # <<>>
    /\ ~IsUtf8(req.segs[1]) /\ IsUtf8(req.segs[2])
    /\ paths[1].segs[2] # req.segs[2]

\* ------------------------------------------------------------------- C9
\* The listing of p's parent, made by find, handed p's name over.
EstablishedByListing(p) ==
    /\ p.segs # <<>>
    /\ [root |-> p.root, segs |-> Front(p.segs)] \in Range(listCalls)
    /\ p.segs[Len(p.segs)] \in OkListed(inner, Front(p.segs))

\* C9 (as claimed): at every stage every candidate exists in the store and
\* its existence was established by a listing.
C9_CandidatesEstablishedByListing ==
    InFind =>
        \A i \in DOMAIN paths :
            Exists(inner, paths[i].segs) /\ EstablishedByListing(paths[i])

\* C9 (amended): every candidate with a named segment was handed over by a
\* listing of its parent; the initial empty path and the root path are in
\* the set without any listing having been made.
C9_NamedCandidatesEstablishedByListing ==
    InFind =>
        \A i \in DOMAIN paths :
            /\ Exists(inner, paths[i].segs)
            /\ paths[i].segs # <<>> => EstablishedByListing(paths[i])
            /\ paths[i].segs = <<>> => listCalls = <<>>

C9_Witness ==
    /\ InFind /\ pc = "done" /\ paths # <<>>
    /\ Len(paths[1].segs) = 2
    /\ paths[1].segs[1] # req.segs[1] /\ paths[1].segs[2] # req.segs[2]

\* ------------------------------------------------------------------ C10
CaseVariantsOf(p) ==
    {q \in Requests :
        /\ q.root = p.root
        /\ Len(q.segs) = Len(p.segs)
        /\ \A i \in 1..Len(p.segs) :
              \/ q.segs[i] = p.segs[i]
              \/ IsUtf8(p.segs[i]) /\ FoldEq(p.segs[i], q.segs[i])}

\* C10: find returns the same paths, after the same listings, for requests
\* that differ only in the ASCII letter case of valid-text segments.
C10_FindIgnoresRequestCase ==
    (op = "find" /\ pc = "done") =>
        \A q \in CaseVariantsOf(req) :
            /\ Find(inner, q).paths = paths
            /\ Find(inner, q).calls = listCalls

C10_Witness ==
    /\ op = "find" /\ pc = "done" /\ Len(paths) = 2 /\ Len(req.segs) = 2
    /\ \E q \in CaseVariantsOf(req) : q.segs[1] # req.segs[1] /\ q.segs[2] # req.segs[2]

====
